---- MODULE Spec2Model ----
(***************************************************************************)
(* Humor Memory Game backend: the game-session protocol of                 *)
(* routes/game.js (POST /start, /match, /complete) over the Redis session  *)
(* cache (utils/redis.js) and the Postgres store (models/database.js).     *)
(*                                                                         *)
(* A request handler is an async function: between two awaits it runs      *)
(* without interruption, and every await is one operation on a store.     *)
(* Each action below is one store operation together with the synchronous  *)
(* code that follows it up to the next await (or up to the response).      *)
(***************************************************************************)
EXTENDS Integers, Sequences, FiniteSets, TLC

\* ------------------------------------------------------------------ bounds
\* Decks are cut to DeckPairs pairs (the tiers configure 8 to 15 pairs).
DeckPairs == 2
\* Pairing attempts accepted per game (answered or still in flight).
MaxMoves == 2
\* Requests in flight at once under SpecConc (Spec issues them serially).
MaxInflight == 2
\* The most match events of a session whose stats are computed on their own.
MaxStreakLen == 3
\* The most rows of table games when the trigger of the table is run on its own.
MaxGames == 2

\* ------------------------------------------------------- program constants
\* gameConfig (utils/gameData.js): difficulties and scoring.
gameConfig ==
  [difficulties |->
     [easy   |-> [cardCount |-> 16, timeLimit |-> 300000, pointsPerMatch |-> 10,
                  bonusTimeThreshold |-> 10000, bonusPoints |-> 5],
      medium |-> [cardCount |-> 20, timeLimit |-> 480000, pointsPerMatch |-> 15,
                  bonusTimeThreshold |-> 8000, bonusPoints |-> 8],
      hard   |-> [cardCount |-> 24, timeLimit |-> 600000, pointsPerMatch |-> 20,
                  bonusTimeThreshold |-> 6000, bonusPoints |-> 12],
      expert |-> [cardCount |-> 30, timeLimit |-> 900000, pointsPerMatch |-> 25,
                  bonusTimeThreshold |-> 5000, bonusPoints |-> 15]],
   scoring |-> [perfectGameBonus |-> 50, speedBonusMultiplierX10 |-> 15,
                streakBonus |-> 3, maxStreakBonus |-> 30]]

\* Three of the templates of emojiPairs (utils/gameData.js): two of category
\* classic and one of love. The glyph `emoji` goes with `name` and is left out.
emojiPairs ==
  << [id |-> "laughing",   name |-> "Crying Laugh", category |-> "classic"],
     [id |-> "wink",       name |-> "Winking Face", category |-> "classic"],
     [id |-> "heart_eyes", name |-> "Heart Eyes",   category |-> "love"] >>

\* emojiPairs in full (utils/gameData.js 8-49), for generateCardSet on its own.
emojiPairsAll ==
  <<
     [id |-> "laughing", name |-> "Crying Laugh", category |-> "classic"],
     [id |-> "wink", name |-> "Winking Face", category |-> "classic"],
     [id |-> "cool", name |-> "Cool Dude", category |-> "classic"],
     [id |-> "heart_eyes", name |-> "Heart Eyes", category |-> "love"],
     [id |-> "thinking", name |-> "Thinking Face", category |-> "thoughtful"],
     [id |-> "upside_down", name |-> "Upside Down", category |-> "silly"],
     [id |-> "rolling_eyes", name |-> "Eye Roll", category |-> "sassy"],
     [id |-> "zany", name |-> "Zany Face", category |-> "silly"],
     [id |-> "robot", name |-> "Robot Face", category |-> "tech"],
     [id |-> "ghost", name |-> "Friendly Ghost", category |-> "spooky"],
     [id |-> "alien", name |-> "Alien Friend", category |-> "space"],
     [id |-> "unicorn", name |-> "Magical Unicorn", category |-> "fantasy"],
     [id |-> "pizza", name |-> "Pizza Slice", category |-> "food"],
     [id |-> "taco", name |-> "Taco Tuesday", category |-> "food"],
     [id |-> "donut", name |-> "Donut Delight", category |-> "food"],
     [id |-> "rainbow", name |-> "Rainbow Magic", category |-> "nature"],
     [id |-> "rocket", name |-> "Blast Off", category |-> "space"],
     [id |-> "guitar", name |-> "Rock Star", category |-> "music"],
     [id |-> "sunglasses", name |-> "Shades", category |-> "cool"],
     [id |-> "party", name |-> "Party Time", category |-> "celebration"],
     [id |-> "detective", name |-> "Detective", category |-> "mystery"],
     [id |-> "ninja", name |-> "Stealth Ninja", category |-> "action"],
     [id |-> "pirate", name |-> "Pirate Flag", category |-> "adventure"],
     [id |-> "fire", name |-> "On Fire", category |-> "hot"],
     [id |-> "lightning", name |-> "Lightning Bolt", category |-> "energy"],
     [id |-> "star", name |-> "Superstar", category |-> "space"],
     [id |-> "diamond", name |-> "Precious Diamond", category |-> "luxury"],
     [id |-> "crown", name |-> "Royal Crown", category |-> "luxury"],
     [id |-> "trophy", name |-> "Victory Trophy", category |-> "achievement"],
     [id |-> "magic_wand", name |-> "Magic Wand", category |-> "fantasy"] >>

\* "Consider consecutive if within 30 seconds" (calculateConsecutiveMatches).
StreakGapMs == 30000

\* ------------------------------------------------------------ input sets
\* The ids the store can hand out to games; a request may name any of them,
\* handed out or not.
GameIds == {"g1"}
RequestGameIds == GameIds
\* A username is a string: the sequence of its characters.
Usernames == {<<"a", "l", "i", "c", "e">>}
Difficulties == {"easy"}
\* matchTime is optional: NoTime stands for an absent field.
NoTime == -1
MatchTimes == {NoTime, 0, 5000}
TimesElapsed == {1000, 150000}
\* A card id is `${emoji.id}_${k}`: the pair <<emoji.id, k>>.
CardIds == {<<emojiPairs[i].id, k>> : i \in 1..Len(emojiPairs), k \in 1..2}
\* The outcomes of shuffleArray that the requests draw (shuffleArray also knows
\* the reversal); the claims on the session protocol do not read the order.
Shuffles == {"keep"}

VARIABLES
  users,         \* Postgres: usernames of the rows of table users
  games,         \* Postgres: table games, by id (NoRow: no such row)
  game_matches,  \* Postgres: table game_matches, in insertion order
  cache,         \* Redis: game:session:<id> (NoSession: no such key)
  reqs,          \* the requests in flight: each handler's position and locals
  now,           \* Date.now(); the requests of one run fall within one instant
  last,          \* the response sent by the step just taken, if any
  completeOk,    \* history: a Complete of the game was answered 200
  pairings,      \* history: Match submissions of the game answered 200
  snapshots,     \* Redis: leaderboard:top and user:stats:<name>, by key
  call           \* a call of one function on its own: its input and its progress

vars == <<users, games, game_matches, cache, reqs, now, last, completeOk, pairings,
          snapshots, call>>

NoRow == [id |-> "none"]
NoSession == [gameId |-> "none"]
Idle == [pc |-> "idle"]
NoResponse == [kind |-> "none"]
NoCall == [fn |-> "none"]

\* The keys of the snapshots: `user:stats:${username}` and 'leaderboard:top'.
\* A key holds <<>> (no such key) or <<snapshot>>.
userStatsKey(username) == <<"user:stats", username>>
leaderboardKey == <<"leaderboard", "top">>
SnapshotKeys == {leaderboardKey} \cup {userStatsKey(u) : u \in Usernames}
Slots == 1..MaxInflight

\* The stores as one value, to compare them before and after a request.
Stores == [users |-> users, games |-> games, game_matches |-> game_matches,
           cache |-> cache, snapshots |-> snapshots]

Min(a, b) == IF a < b THEN a ELSE b
Max(a, b) == IF a > b THEN a ELSE b
\* ---------------------------------------------------------- pure functions
\* shuffleArray (utils/gameData.js): a random permutation; the model draws it
\* from Shuffles.
shuffleArray(arr, s) ==
  IF s = "keep" THEN arr
  ELSE IF s = "rotate" THEN [i \in 1..Len(arr) |-> arr[(i % Len(arr)) + 1]]
  ELSE [i \in 1..Len(arr) |-> arr[Len(arr) + 1 - i]]

\* config.cardCount / 2, cut to DeckPairs.
pairCount(difficulty) ==
  Min(gameConfig.difficulties[difficulty].cardCount \div 2, DeckPairs)

\* The body of generateCardSet with no fall back to all emojis: C18 must fail
\* of it.
cardSetOfNoFallback(pool, count, categories, s1, s2) ==
  LET availableEmojis == IF categories # {}
                         THEN SelectSeq(pool, LAMBDA e : e.category \in categories)
                         ELSE pool
      shuffled1 == shuffleArray(availableEmojis, s1)
      selectedEmojis == SubSeq(shuffled1, 1, Min(count, Len(shuffled1)))
      cards == [i \in 1..(2 * Len(selectedEmojis)) |->
                  LET emoji == selectedEmojis[(i + 1) \div 2]
                  IN  [id |-> <<emoji.id, 2 - (i % 2)>>, pairId |-> emoji.id,
                       name |-> emoji.name,
                       category |-> emoji.category, isFlipped |-> FALSE,
                       isMatched |-> FALSE, position |-> -1]]
      shuffledCards == shuffleArray(cards, s2)
  IN  [i \in 1..Len(shuffledCards) |-> [shuffledCards[i] EXCEPT !.position = i - 1]]

\* The body of GameDataGenerator.generateCardSet, for a pool of emojis and a
\* number of pairs: categories = {} stands for null or []; s1 and s2 are the
\* outcomes of its two shuffles.
cardSetOf(pool, count, categories, s1, s2) ==
  LET filtered == IF categories # {}
                  THEN SelectSeq(pool, LAMBDA e : e.category \in categories)
                  ELSE pool
      availableEmojis == IF Len(filtered) < count THEN pool ELSE filtered
      shuffled1 == shuffleArray(availableEmojis, s1)
      selectedEmojis == SubSeq(shuffled1, 1, Min(count, Len(shuffled1)))
      cards == [i \in 1..(2 * Len(selectedEmojis)) |->
                  LET emoji == selectedEmojis[(i + 1) \div 2]
                  IN  [id |-> <<emoji.id, 2 - (i % 2)>>, pairId |-> emoji.id,
                       name |-> emoji.name,
                       category |-> emoji.category, isFlipped |-> FALSE,
                       isMatched |-> FALSE, position |-> -1]]
      shuffledCards == shuffleArray(cards, s2)
  IN  [i \in 1..Len(shuffledCards) |-> [shuffledCards[i] EXCEPT !.position = i - 1]]

\* generateCardSet as the game service of the model calls it: decks cut to
\* DeckPairs pairs, from the three templates of emojiPairs.
generateCardSet(difficulty, categories, s1, s2) ==
  cardSetOf(emojiPairs, pairCount(difficulty), categories, s1, s2)

\* generateCardSet as the source has it: config.cardCount / 2 pairs from all
\* of emojiPairs.
generateCardSetAll(difficulty, categories, s1, s2) ==
  cardSetOf(emojiPairsAll, gameConfig.difficulties[difficulty].cardCount \div 2,
            categories, s1, s2)

\* Array.prototype.sort((a, b) => a.timestamp - b.timestamp): a stable sort.
RECURSIVE sortByTimestamp(_)
sortByTimestamp(matches) ==
  IF Len(matches) <= 1 THEN matches
  ELSE LET rest == sortByTimestamp(SubSeq(matches, 1, Len(matches) - 1))
           x == matches[Len(matches)]
           k == Cardinality({i \in 1..Len(rest) : rest[i].timestamp <= x.timestamp})
       IN  SubSeq(rest, 1, k) \o <<x>> \o SubSeq(rest, k + 1, Len(rest))

\* The loop of calculateConsecutiveMatches over the sorted matches, from index i
\* (1-based) with the streaks so far.
RECURSIVE streakLoop(_, _, _, _)
streakLoop(sortedMatches, i, maxStreak, currentStreak) ==
  IF i > Len(sortedMatches) THEN maxStreak
  ELSE LET timeDiff == sortedMatches[i].timestamp - sortedMatches[i - 1].timestamp
       IN  IF timeDiff <= StreakGapMs
           THEN streakLoop(sortedMatches, i + 1,
                           Max(maxStreak, currentStreak + 1), currentStreak + 1)
           ELSE streakLoop(sortedMatches, i + 1, maxStreak, 1)

\* calculateConsecutiveMatches without the sort: C27 must fail of it.
calculateConsecutiveMatchesUnsorted(matches) ==
  IF Len(matches) = 0 THEN 0
  ELSE streakLoop(matches, 2, 1, 1)

\* calculateConsecutiveMatches (routes/game.js).
calculateConsecutiveMatches(matches) ==
  IF Len(matches) = 0 THEN 0
  ELSE streakLoop(sortByTimestamp(matches), 2, 1, 1)

\* calculateScore without `totalScore = Math.max(0, totalScore)`: C19 must fail
\* of it.
calculateScoreUnclamped(gameStats) ==
  LET config == gameConfig.difficulties[gameStats.difficulty]
      scoring == gameConfig.scoring
      baseScore == gameStats.matches * config.pointsPerMatch
      \* timeElapsed < config.timeLimit * 0.5
      speedBonus == IF 2 * gameStats.timeElapsed < config.timeLimit
                    THEN (baseScore * scoring.speedBonusMultiplierX10) \div 10 ELSE 0
      perfectGameBonus == IF gameStats.wrongMoves = 0 THEN scoring.perfectGameBonus ELSE 0
      streakBonus == IF gameStats.consecutiveMatches >= 3
                     THEN Min(gameStats.consecutiveMatches * scoring.streakBonus,
                              scoring.maxStreakBonus)
                     ELSE 0
      penalties == Max(0, gameStats.wrongMoves - 2) * 2
      total == baseScore + speedBonus + perfectGameBonus + streakBonus - penalties
  IN  [totalScore |-> total,
       breakdown |-> [baseScore |-> baseScore, bonusPoints |-> 0,
                      speedBonus |-> speedBonus, perfectGameBonus |-> perfectGameBonus,
                      streakBonus |-> streakBonus, penalties |-> penalties]]

\* calculateScore with a streak bonus from the first match on: C20 must fail
\* of it.
calculateScoreAnyStreak(gameStats) ==
  LET config == gameConfig.difficulties[gameStats.difficulty]
      scoring == gameConfig.scoring
      baseScore == gameStats.matches * config.pointsPerMatch
      \* timeElapsed < config.timeLimit * 0.5
      speedBonus == IF 2 * gameStats.timeElapsed < config.timeLimit
                    THEN (baseScore * scoring.speedBonusMultiplierX10) \div 10 ELSE 0
      perfectGameBonus == IF gameStats.wrongMoves = 0 THEN scoring.perfectGameBonus ELSE 0
      streakBonus == IF gameStats.consecutiveMatches >= 1
                     THEN Min(gameStats.consecutiveMatches * scoring.streakBonus,
                              scoring.maxStreakBonus)
                     ELSE 0
      penalties == Max(0, gameStats.wrongMoves - 2) * 2
      total == baseScore + speedBonus + perfectGameBonus + streakBonus - penalties
  IN  [totalScore |-> Max(0, total),
       breakdown |-> [baseScore |-> baseScore, bonusPoints |-> 0,
                      speedBonus |-> speedBonus, perfectGameBonus |-> perfectGameBonus,
                      streakBonus |-> streakBonus, penalties |-> penalties]]

\* GameDataGenerator.calculateScore: total and breakdown.
calculateScore(gameStats) ==
  LET config == gameConfig.difficulties[gameStats.difficulty]
      scoring == gameConfig.scoring
      baseScore == gameStats.matches * config.pointsPerMatch
      \* timeElapsed < config.timeLimit * 0.5
      speedBonus == IF 2 * gameStats.timeElapsed < config.timeLimit
                    THEN (baseScore * scoring.speedBonusMultiplierX10) \div 10 ELSE 0
      perfectGameBonus == IF gameStats.wrongMoves = 0 THEN scoring.perfectGameBonus ELSE 0
      streakBonus == IF gameStats.consecutiveMatches >= 3
                     THEN Min(gameStats.consecutiveMatches * scoring.streakBonus,
                              scoring.maxStreakBonus)
                     ELSE 0
      penalties == Max(0, gameStats.wrongMoves - 2) * 2
      total == baseScore + speedBonus + perfectGameBonus + streakBonus - penalties
  IN  [totalScore |-> Max(0, total),
       breakdown |-> [baseScore |-> baseScore, bonusPoints |-> 0,
                      speedBonus |-> speedBonus, perfectGameBonus |-> perfectGameBonus,
                      streakBonus |-> streakBonus, penalties |-> penalties]]

\* cards.find((card) => card.id === cardId): the index of the first such card,
\* 0 when there is none.
findCard(cards, cardId) ==
  LET hits == {i \in 1..Len(cards) : cards[i].id = cardId}
  IN  IF hits = {} THEN 0 ELSE CHOOSE i \in hits : \A j \in hits : i <= j
\* ------------------------------------------------- POST /match, block by block
\* matchCheck without its isCompleted check: C3 must fail of it.
matchCheckNoCompleted(gameSession, card1Id, card2Id) ==
  IF gameSession = NoSession THEN "Game session not found"
  ELSE IF findCard(gameSession.cards, card1Id) = 0
          \/ findCard(gameSession.cards, card2Id) = 0 THEN "Invalid card IDs"
  ELSE IF gameSession.cards[findCard(gameSession.cards, card1Id)].isMatched
          \/ gameSession.cards[findCard(gameSession.cards, card2Id)].isMatched
       THEN "Cards already matched"
  ELSE "ok"

\* matchCheck without its isMatched check: C7 must fail of it.
matchCheckNoMatched(gameSession, card1Id, card2Id) ==
  IF gameSession = NoSession THEN "Game session not found"
  ELSE IF gameSession.isCompleted THEN "Game already completed"
  ELSE IF findCard(gameSession.cards, card1Id) = 0
          \/ findCard(gameSession.cards, card2Id) = 0 THEN "Invalid card IDs"
  ELSE "ok"

\* The checks of POST /match on the session it read (routes/game.js 129-163).
matchCheck(gameSession, card1Id, card2Id) ==
  IF gameSession = NoSession THEN "Game session not found"
  ELSE IF gameSession.isCompleted THEN "Game already completed"
  ELSE IF findCard(gameSession.cards, card1Id) = 0
          \/ findCard(gameSession.cards, card2Id) = 0 THEN "Invalid card IDs"
  ELSE IF gameSession.cards[findCard(gameSession.cards, card1Id)].isMatched
          \/ gameSession.cards[findCard(gameSession.cards, card2Id)].isMatched
       THEN "Cards already matched"
  ELSE "ok"

\* errorStatus with 400 for every error: C6 must fail of it.
errorStatusAlways400(error) == 400

\* The status sent with each error of POST /match and POST /complete.
errorStatus(error) ==
  IF error = "Game session not found" THEN 404 ELSE 400

\* isMatch taken to be true of any two cards: C9 must fail of it.
isMatchAlways(gameSession, card1Id, card2Id) == TRUE

\* isMatch (routes/game.js 166).
isMatchOf(gameSession, card1Id, card2Id) ==
  gameSession.cards[findCard(gameSession.cards, card1Id)].pairId
    = gameSession.cards[findCard(gameSession.cards, card2Id)].pairId

\* The speed bonus check: matchTime && matchTime < config.bonusTimeThreshold.
isSpeedBonusOf(config, matchTime) ==
  matchTime # NoTime /\ matchTime # 0 /\ matchTime < config.bonusTimeThreshold

\* matchTime || 0
matchTimeOr0(matchTime) == IF matchTime = NoTime THEN 0 ELSE matchTime

\* Points of the attempt and the flags set before recordMatch is awaited
\* (routes/game.js 165-185): the handler's locals.
matchPoints(gameSession, in) ==
  LET isMatch == isMatchOf(gameSession, in.card1Id, in.card2Id)
      config == gameConfig.difficulties[gameSession.difficulty]
      isSpeedBonus == isMatch /\ isSpeedBonusOf(config, in.matchTime)
  IN  [isMatch |-> isMatch,
       pointsEarned |-> IF isMatch THEN config.pointsPerMatch ELSE 0,
       bonusPoints |-> IF isSpeedBonus THEN config.bonusPoints ELSE 0,
       isSpeedBonus |-> isSpeedBonus]

\* card1.isMatched = true; card2.isMatched = true.
markMatched(gameSession, card1Id, card2Id) ==
  LET i1 == findCard(gameSession.cards, card1Id)
      i2 == findCard(gameSession.cards, card2Id)
  IN  [gameSession EXCEPT !.cards =
         [i \in 1..Len(gameSession.cards) |->
            IF i = i1 \/ i = i2
            THEN [gameSession.cards[i] EXCEPT !.isMatched = TRUE]
            ELSE gameSession.cards[i]]]

\* pushMatch appending the event twice: C5 must fail of it.
pushMatchTwice(gameSession, in, pts, timestamp) ==
  LET event == [card1Id |-> in.card1Id, card2Id |-> in.card2Id,
                matchTime |-> matchTimeOr0(in.matchTime),
                pointsEarned |-> pts.pointsEarned,
                bonusPoints |-> pts.bonusPoints, timestamp |-> timestamp]
  IN  [gameSession EXCEPT !.matches = Append(Append(@, event), event),
                          !.score = @ + pts.pointsEarned + pts.bonusPoints]

\* gameSession.matches.push(...); gameSession.score += ... (routes/game.js 198-207).
pushMatch(gameSession, in, pts, timestamp) ==
  [gameSession EXCEPT
     !.matches = Append(@, [card1Id |-> in.card1Id, card2Id |-> in.card2Id,
                            matchTime |-> matchTimeOr0(in.matchTime),
                            pointsEarned |-> pts.pointsEarned,
                            bonusPoints |-> pts.bonusPoints,
                            timestamp |-> timestamp]),
     !.score = @ + pts.pointsEarned + pts.bonusPoints]

\* gameSession.moves++ left out: C4 must fail of it.
incrementMovesNot(gameSession) == gameSession

\* gameSession.moves++ (routes/game.js 211), after an attempt of either outcome.
incrementMoves(gameSession) ==
  [gameSession EXCEPT !.moves = @ + 1]

\* The row with the two card ids exchanged: C26 must fail of it.
recordMatchExchanged(gameId, in, pts) ==
  [game_id |-> gameId, card1_id |-> in.card2Id, card2_id |-> in.card1Id,
   match_time |-> matchTimeOr0(in.matchTime), points_earned |-> pts.pointsEarned,
   bonus_points |-> pts.bonusPoints]

\* The row recordMatch inserts into game_matches (models/database.js).
recordMatch(gameId, in, pts) ==
  [game_id |-> gameId, card1_id |-> in.card1Id, card2_id |-> in.card2Id,
   match_time |-> matchTimeOr0(in.matchTime), points_earned |-> pts.pointsEarned,
   bonus_points |-> pts.bonusPoints]

\* isGameComplete (routes/game.js 238-240).
isGameCompleteOf(gameSession) ==
  Len(gameSession.matches) = Len(gameSession.cards) \div 2

\* The body of the 200 response of POST /match (routes/game.js 237-267).
matchResponse(gameSession, pts) ==
  [success |-> TRUE, isMatch |-> pts.isMatch,
   pointsEarned |-> pts.pointsEarned + pts.bonusPoints,
   score |-> gameSession.score, moves |-> gameSession.moves,
   matchesFound |-> Len(gameSession.matches),
   totalPairs |-> Len(gameSession.cards) \div 2,
   isComplete |-> isGameCompleteOf(gameSession),
   bonusPoints |-> pts.bonusPoints, isSpeedBonus |-> pts.isSpeedBonus]
\* ------------------------------------------------- middleware/validation.js
\* The characters Joi's alphanum() accepts: a-z, A-Z, 0-9.
AlnumChars ==
  {"a", "b", "c", "d", "e", "f", "g", "h", "i", "j", "k", "l", "m", "n", "o", "p",
   "q", "r", "s", "t", "u", "v", "w", "x", "y", "z",
   "A", "B", "C", "D", "E", "F", "G", "H", "I", "J", "K", "L", "M", "N", "O", "P",
   "Q", "R", "S", "T", "U", "V", "W", "X", "Y", "Z",
   "0", "1", "2", "3", "4", "5", "6", "7", "8", "9"}

\* The categories schemas.gameStart accepts.
ValidCategories ==
  {"classic", "food", "space", "fantasy", "tech", "love", "thoughtful", "silly",
   "sassy", "spooky", "nature", "music", "cool", "celebration", "mystery",
   "action", "adventure", "hot", "energy", "luxury", "achievement"}

\* Joi.string().uuid(): the ids of RequestGameIds stand for strings of UUID
\* form (the store generates them with uuid_generate_v4()); any other string is
\* not of UUID form.
Uuids == RequestGameIds

\* An optional field that the body does not have.
Absent == "absent"

\* schemas.gameStart with every username accepted: C21 must fail of it.
gameStartAnyUsername(body) ==
  /\ body.difficulty = Absent \/ body.difficulty \in {"easy", "medium", "hard", "expert"}
  /\ body.categories \subseteq ValidCategories /\ Cardinality(body.categories) <= 10

\* schemas.gameStart: username alphanum, 3 to 50 characters, required (a body
\* without it is one with the empty username here); difficulty one of four,
\* optional; categories at most 10 of the valid ones.
gameStart(body) ==
  /\ Len(body.username) >= 3 /\ Len(body.username) <= 50
  /\ \A i \in DOMAIN body.username : body.username[i] \in AlnumChars
  /\ body.difficulty = Absent \/ body.difficulty \in {"easy", "medium", "hard", "expert"}
  /\ body.categories \subseteq ValidCategories /\ Cardinality(body.categories) <= 10

\* schemas.cardMatch: gameId a UUID; matchTime an integer in 0..600000,
\* optional (NoTime). The card ids of the model are non-empty and short.
cardMatch(body) ==
  /\ body.gameId \in Uuids
  /\ body.matchTime = NoTime \/ (body.matchTime >= 0 /\ body.matchTime <= 600000)

\* schemas.gameComplete: gameId a UUID; timeElapsed in 1000..1800000;
\* finalScore in 0..1000 (optional: the bodies of the model carry one).
gameComplete(body) ==
  /\ body.gameId \in Uuids
  /\ body.timeElapsed >= 1000 /\ body.timeElapsed <= 1800000
  /\ body.finalScore >= 0 /\ body.finalScore <= 1000

\* --------------------------------------------------------------- requests
Init ==
  /\ users = {}
  /\ games = [g \in RequestGameIds |-> NoRow]
  /\ game_matches = <<>>
  /\ cache = [g \in RequestGameIds |-> NoSession]
  /\ reqs = [s \in Slots |-> Idle]
  /\ now = 0
  /\ last = NoResponse
  /\ completeOk = [g \in RequestGameIds |-> FALSE]
  /\ pairings = [g \in RequestGameIds |-> 0]
  /\ snapshots = [key \in SnapshotKeys |-> <<>>]
  /\ call = NoCall

InFlight == {s \in Slots : reqs[s] # Idle}

\* A new request takes the lowest free slot; at most `limit` are in flight.
CanBegin(s, limit) ==
  /\ reqs[s] = Idle
  /\ Cardinality(InFlight) < limit
  /\ \A t \in Slots : t < s => reqs[t] # Idle

\* res.status(status).json(body): the request at slot s ends. `in` is the
\* request's body once it passed the handler's checks, `pre` the stores as the
\* request found them.
Respond(s, kind, gameId, status, error, body, in, pre) ==
  /\ last' = [kind |-> kind, gameId |-> gameId, status |-> status,
              error |-> error, body |-> body, in |-> in, pre |-> pre]
  /\ reqs' = [reqs EXCEPT ![s] = Idle]

NoBody == [success |-> FALSE]
NoInput == [rejected |-> TRUE]

\* The pairing attempts of the game that passed the checks of POST /match.
attemptsOf(gameId) ==
  pairings[gameId]
    + Cardinality({t \in Slots : reqs[t] # Idle /\ reqs[t].kind = "match"
                                              /\ reqs[t].gameId = gameId})

\* RedisCache.get of game:session:<gameId>.
getCachedGameSession(gameId) == cache[gameId]

\* POST /match up to its first await after the cache read: the checks, and for
\* cards that pass them the points, the flags and (on a miss) the move count.
\* matchTime is read only when the cards match, and is drawn there.
MatchGetAt(s, limit, gameId, card1Id, card2Id, times) ==
  /\ CanBegin(s, limit)
  /\ LET gameSession == getCachedGameSession(gameId)
         error == matchCheck(gameSession, card1Id, card2Id)
     IN  IF error # "ok"
         THEN /\ Respond(s, "match", gameId, errorStatus(error), error, NoBody, NoInput, Stores)
              /\ UNCHANGED <<users, games, game_matches, cache, now, completeOk, pairings, snapshots, call>>
         ELSE /\ attemptsOf(gameId) < MaxMoves
              /\ \E matchTime \in IF isMatchOf(gameSession, card1Id, card2Id)
                                  THEN times ELSE {NoTime} :
                   LET in == [card1Id |-> card1Id, card2Id |-> card2Id,
                              matchTime |-> matchTime]
                       pts == matchPoints(gameSession, in)
                   IN  reqs' = [reqs EXCEPT ![s] =
                         [kind |-> "match", gameId |-> gameId, in |-> in, pts |-> pts,
                          pre |-> Stores,
                          pc |-> IF pts.isMatch THEN "recordMatch" ELSE "cacheGameSession",
                          gameSession |->
                            IF pts.isMatch THEN markMatched(gameSession, card1Id, card2Id)
                            ELSE incrementMoves(gameSession)]]
              /\ last' = NoResponse
              /\ UNCHANGED <<users, games, game_matches, cache, now, completeOk, pairings, snapshots, call>>

\* POST /match for a body whose matchTime is any of MatchTimes.
MatchGet(s, limit, gameId, card1Id, card2Id) ==
  MatchGetAt(s, limit, gameId, card1Id, card2Id, MatchTimes)

\* await database.recordMatch(...), then the push, the score and the move count.
MatchRecord(s) ==
  /\ reqs[s] # Idle /\ reqs[s].kind = "match" /\ reqs[s].pc = "recordMatch"
  /\ LET r == reqs[s]
     IN  /\ game_matches' = Append(game_matches, recordMatch(r.gameId, r.in, r.pts))
         /\ reqs' = [reqs EXCEPT ![s] =
              [r EXCEPT !.pc = "cacheGameSession",
                        !.gameSession =
                           incrementMoves(pushMatch(r.gameSession, r.in, r.pts, now))]]
  /\ last' = NoResponse
  /\ UNCHANGED <<users, games, cache, now, completeOk, pairings, snapshots, call>>

\* await redisCache.cacheGameSession(gameId, gameSession).
MatchCacheSession(s) ==
  /\ reqs[s] # Idle /\ reqs[s].kind = "match" /\ reqs[s].pc = "cacheGameSession"
  /\ cache' = [cache EXCEPT ![reqs[s].gameId] = reqs[s].gameSession]
  /\ reqs' = [reqs EXCEPT ![s].pc = "trackUserActivity"]
  /\ last' = NoResponse
  /\ UNCHANGED <<users, games, game_matches, now, completeOk, pairings, snapshots, call>>

\* await redisCache.trackUserActivity(...), the metrics, and res.json(response).
MatchFinish(s) ==
  /\ reqs[s] # Idle /\ reqs[s].kind = "match" /\ reqs[s].pc = "trackUserActivity"
  /\ LET r == reqs[s]
     IN  /\ Respond(s, "match", r.gameId, 200, "",
                    matchResponse(r.gameSession, r.pts), r.in, r.pre)
         /\ pairings' = [pairings EXCEPT ![r.gameId] = @ + 1]
  /\ UNCHANGED <<users, games, game_matches, cache, now, completeOk, snapshots, call>>
\* ------------------------------------------------------------ POST /complete
\* completeCheck without its isCompleted check: C1 must fail of it.
completeCheckNoConflict(gameSession) ==
  IF gameSession = NoSession THEN "Game session not found" ELSE "ok"

\* The checks of POST /complete on the session it read (routes/game.js 307-321).
completeCheck(gameSession) ==
  IF gameSession = NoSession THEN "Game session not found"
  ELSE IF gameSession.isCompleted THEN "Game already completed"
  ELSE "ok"

\* gameStats (routes/game.js 324-330).
gameStatsOf(gameSession, timeElapsed) ==
  [matches |-> Len(gameSession.matches),
   wrongMoves |-> gameSession.moves - Len(gameSession.matches),
   timeElapsed |-> timeElapsed,
   difficulty |-> gameSession.difficulty,
   consecutiveMatches |-> calculateConsecutiveMatches(gameSession.matches)]

\* completeGame leaving the row as it was: C11 must fail of it.
completeGameNoUpdate(row, score, moves, timeElapsed, cardsMatched) == row

\* completeGame leaving cards_matched as it was: C13 must fail of it.
completeGameNoCards(row, score, moves, timeElapsed, cardsMatched) ==
  [row EXCEPT !.score = score, !.moves = moves, !.time_elapsed = timeElapsed,
              !.game_completed = TRUE]

\* The update completeGame applies to the row of the game (models/database.js).
completeGame(row, score, moves, timeElapsed, cardsMatched) ==
  [row EXCEPT !.score = score, !.moves = moves, !.time_elapsed = timeElapsed,
              !.cards_matched = cardsMatched, !.game_completed = TRUE]

\* Mark session as completed (routes/game.js 345-347).
markCompleted(gameSession, totalScore) ==
  [gameSession EXCEPT !.isCompleted = TRUE, !.finalScore = totalScore]

\* The gameResult of the 200 response of POST /complete (routes/game.js 383-396).
completeResponse(gameSession, scoreBreakdown, timeElapsed) ==
  [success |-> TRUE, finalScore |-> scoreBreakdown.totalScore,
   scoreBreakdown |-> scoreBreakdown.breakdown, timeElapsed |-> timeElapsed,
   totalMoves |-> gameSession.moves, matchesFound |-> Len(gameSession.matches),
   difficulty |-> gameSession.difficulty]

\* POST /complete up to its first await after the cache read: the checks and
\* the score. calculateConsecutiveMatches sorts gameSession.matches in place.
CompleteGet(s, limit, gameId, timeElapsed, finalScore) ==
  /\ CanBegin(s, limit)
  /\ LET gameSession == getCachedGameSession(gameId)
         in == [timeElapsed |-> timeElapsed, finalScore |-> finalScore]
         error == completeCheck(gameSession)
     IN  IF error # "ok"
         THEN /\ Respond(s, "complete", gameId, errorStatus(error), error, NoBody, NoInput, Stores)
              /\ UNCHANGED <<users, games, game_matches, cache, now, completeOk, pairings, snapshots, call>>
         ELSE /\ reqs' = [reqs EXCEPT ![s] =
                   [kind |-> "complete", gameId |-> gameId, in |-> in, pre |-> Stores,
                    pc |-> "completeGame",
                    scoreBreakdown |-> calculateScore(gameStatsOf(gameSession, timeElapsed)),
                    gameSession |->
                      [gameSession EXCEPT !.matches = sortByTimestamp(@)]]]
              /\ last' = NoResponse
              /\ UNCHANGED <<users, games, game_matches, cache, now, completeOk, pairings, snapshots, call>>

\* await database.completeGame(...): 'Game not found' when there is no row, else
\* the row is updated and the local session is marked completed.
CompleteGame(s) ==
  /\ reqs[s] # Idle /\ reqs[s].kind = "complete" /\ reqs[s].pc = "completeGame"
  /\ LET r == reqs[s]
     IN  IF games[r.gameId] = NoRow
         THEN /\ Respond(s, "complete", r.gameId, 500, "Failed to complete game",
                         NoBody, r.in, r.pre)
              /\ UNCHANGED games
         ELSE /\ games' = [games EXCEPT ![r.gameId] =
                   completeGame(@, r.scoreBreakdown.totalScore, r.gameSession.moves,
                                r.in.timeElapsed, Len(r.gameSession.matches))]
              /\ reqs' = [reqs EXCEPT ![s] =
                   [r EXCEPT !.pc = "cacheGameSession",
                             !.gameSession =
                                markCompleted(r.gameSession, r.scoreBreakdown.totalScore)]]
              /\ last' = NoResponse
  /\ UNCHANGED <<users, game_matches, cache, now, completeOk, pairings, snapshots, call>>

\* await redisCache.cacheGameSession(gameId, gameSession).
CompleteCacheSession(s) ==
  /\ reqs[s] # Idle /\ reqs[s].kind = "complete" /\ reqs[s].pc = "cacheGameSession"
  /\ cache' = [cache EXCEPT ![reqs[s].gameId] = reqs[s].gameSession]
  /\ reqs' = [reqs EXCEPT ![s].pc = "delUserStats"]
  /\ last' = NoResponse
  /\ UNCHANGED <<users, games, game_matches, now, completeOk, pairings, snapshots, call>>

\* RedisCache.del(key), and a variant that deletes nothing: C12 must fail of it.
delNothing(keys, key) == keys
del(keys, key) == [keys EXCEPT ![key] = <<>>]

\* await redisCache.del(`user:stats:${gameSession.username}`).
CompleteDelUserStats(s) ==
  /\ reqs[s] # Idle /\ reqs[s].kind = "complete" /\ reqs[s].pc = "delUserStats"
  /\ snapshots' = del(snapshots, userStatsKey(reqs[s].gameSession.username))
  /\ reqs' = [reqs EXCEPT ![s].pc = "delLeaderboard"]
  /\ last' = NoResponse
  /\ UNCHANGED <<users, games, game_matches, cache, now, completeOk, pairings, call>>

\* await redisCache.del('leaderboard:top').
CompleteDelLeaderboard(s) ==
  /\ reqs[s] # Idle /\ reqs[s].kind = "complete" /\ reqs[s].pc = "delLeaderboard"
  /\ snapshots' = del(snapshots, leaderboardKey)
  /\ reqs' = [reqs EXCEPT ![s].pc = "trackUserActivity"]
  /\ last' = NoResponse
  /\ UNCHANGED <<users, games, game_matches, cache, now, completeOk, pairings, call>>

\* await redisCache.trackUserActivity(...), the metrics, and res.json(...).
CompleteFinish(s) ==
  /\ reqs[s] # Idle /\ reqs[s].kind = "complete" /\ reqs[s].pc = "trackUserActivity"
  /\ LET r == reqs[s]
     IN  /\ Respond(s, "complete", r.gameId, 200, "",
                    completeResponse(r.gameSession, r.scoreBreakdown, r.in.timeElapsed),
                    r.in, r.pre)
         /\ completeOk' = [completeOk EXCEPT ![r.gameId] = TRUE]
  /\ UNCHANGED <<users, games, game_matches, cache, now, pairings, snapshots, call>>

\* --------------------------------------------------------------- POST /start
\* The ids the store has not given to a game yet.
FreeGameIds == {g \in GameIds : games[g] = NoRow}
StartsInFlight == {s \in Slots : reqs[s] # Idle /\ reqs[s].kind = "start"}

\* The session POST /start caches (routes/game.js 55-66).
newSession(gameId, username, difficulty, cards) ==
  [gameId |-> gameId, username |-> username, difficulty |-> difficulty,
   cards |-> cards, matches |-> <<>>, score |-> 0, moves |-> 0,
   isCompleted |-> FALSE, finalScore |-> -1]

\* The row createGame inserts (models/database.js), with the defaults of the table.
createGame(gameId, username, difficulty) ==
  [id |-> gameId, username |-> username, difficulty_level |-> difficulty,
   score |-> 0, moves |-> 0, time_elapsed |-> 0, cards_matched |-> 0,
   game_completed |-> FALSE]

\* The cards of the 201 response of POST /start (routes/game.js 85-93).
startResponse(gameId, difficulty, cards) ==
  [success |-> TRUE, gameId |-> gameId, difficulty |-> difficulty,
   cards |-> [i \in 1..Len(cards) |->
                [id |-> cards[i].id, position |-> cards[i].position,
                 name |-> cards[i].name, category |-> cards[i].category,
                 isFlipped |-> FALSE, isMatched |-> FALSE]],
   config |-> gameConfig.difficulties[difficulty]]

\* createOrGetUser, its SELECT: an existing user is returned and the cards are
\* generated; otherwise the INSERT follows.
StartSelectUser(s, limit, username, difficulty, categories, s1, s2) ==
  /\ CanBegin(s, limit)
  /\ Cardinality(StartsInFlight) < Cardinality(FreeGameIds) + (limit - 1)
  /\ reqs' = [reqs EXCEPT ![s] =
       [kind |-> "start", pre |-> Stores,
        in |-> [username |-> username, difficulty |-> difficulty],
        categories |-> categories,
        pc |-> IF username \in users THEN "createGame" ELSE "insertUser",
        cards |-> IF username \in users
                  THEN generateCardSet(difficulty, categories, s1, s2) ELSE <<>>]]
  /\ last' = NoResponse
  /\ UNCHANGED <<users, games, game_matches, cache, now, completeOk, pairings, snapshots, call>>

\* createOrGetUser, its INSERT (username is UNIQUE), then generateCardSet.
StartInsertUser(s, s1, s2) ==
  /\ reqs[s] # Idle /\ reqs[s].kind = "start" /\ reqs[s].pc = "insertUser"
  /\ LET r == reqs[s]
     IN  IF r.in.username \in users
         THEN /\ Respond(s, "start", "none", 500, "Failed to start game",
                         NoBody, r.in, r.pre)
              /\ UNCHANGED users
         ELSE /\ users' = users \cup {r.in.username}
              /\ reqs' = [reqs EXCEPT ![s] =
                   [r EXCEPT !.pc = "createGame",
                             !.cards = generateCardSet(r.in.difficulty, r.categories, s1, s2)]]
              /\ last' = NoResponse
  /\ UNCHANGED <<games, game_matches, cache, now, completeOk, pairings, snapshots, call>>

\* await database.createGame(...): the store gives the row a fresh id.
StartCreateGame(s) ==
  /\ reqs[s] # Idle /\ reqs[s].kind = "start" /\ reqs[s].pc = "createGame"
  /\ \E gameId \in FreeGameIds :
       /\ games' = [games EXCEPT ![gameId] =
                      createGame(gameId, reqs[s].in.username, reqs[s].in.difficulty)]
       /\ reqs' = [reqs EXCEPT ![s] =
            [kind |-> "start", pre |-> reqs[s].pre, in |-> reqs[s].in,
             pc |-> "cacheGameSession", gameId |-> gameId,
             gameSession |-> newSession(gameId, reqs[s].in.username,
                                        reqs[s].in.difficulty, reqs[s].cards)]]
  /\ last' = NoResponse
  /\ UNCHANGED <<users, game_matches, cache, now, completeOk, pairings, snapshots, call>>

\* await redisCache.cacheGameSession(game.id, {...}).
StartCacheSession(s) ==
  /\ reqs[s] # Idle /\ reqs[s].kind = "start" /\ reqs[s].pc = "cacheGameSession"
  /\ cache' = [cache EXCEPT ![reqs[s].gameId] = reqs[s].gameSession]
  /\ reqs' = [reqs EXCEPT ![s].pc = "incrementDailyGames"]
  /\ last' = NoResponse
  /\ UNCHANGED <<users, games, game_matches, now, completeOk, pairings, snapshots, call>>

\* incrementDailyGames, trackUserActivity, updateLastPlayed, res.status(201).
StartFinish(s) ==
  /\ reqs[s] # Idle /\ reqs[s].kind = "start" /\ reqs[s].pc = "incrementDailyGames"
  /\ LET r == reqs[s]
     IN  Respond(s, "start", r.gameId, 201, "",
                 startResponse(r.gameId, r.in.difficulty, r.gameSession.cards),
                 r.in, r.pre)
  /\ UNCHANGED <<users, games, game_matches, cache, now, completeOk, pairings, snapshots, call>>

\* ------------------------------------------------------------- environment
\* The TTL of game:session:<id> (3600 s, renewed by every SET) runs out. A
\* request takes seconds, so no key expires while a request is in flight.
Expire(gameId) ==
  /\ cache[gameId] # NoSession
  /\ InFlight = {}
  /\ cache' = [cache EXCEPT ![gameId] = NoSession]
  /\ last' = NoResponse
  /\ UNCHANGED <<users, games, game_matches, reqs, now, completeOk, pairings, snapshots, call>>

\* What the leaderboard and the stats of a user are computed from: the games
\* the store holds as completed (all of them, or those of one user).
completedGames(key) ==
  {g \in GameIds : /\ games[g] # NoRow /\ games[g].game_completed
                   /\ (key = leaderboardKey \/ key = userStatsKey(games[g].username))}

\* cacheLeaderboard / cacheUserStats (utils/redis.js): a reader caches what it
\* computed from the store, between two requests.
CacheSnapshot(key) ==
  /\ InFlight = {}
  /\ snapshots[key] # <<completedGames(key)>>
  /\ snapshots' = [snapshots EXCEPT ![key] = <<completedGames(key)>>]
  /\ last' = NoResponse
  /\ UNCHANGED <<users, games, game_matches, cache, reqs, now, completeOk, pairings, call>>

CategoryFilters == {{}, {"love"}}
FinalScores == {0, 1000}

\* A request arrives while at most limit - 1 others are in flight.
ArriveStart(limit) ==
  \E s \in Slots, username \in Usernames, difficulty \in Difficulties,
     categories \in CategoryFilters, s1 \in Shuffles, s2 \in Shuffles :
    StartSelectUser(s, limit, username, difficulty, categories, s1, s2)

ArriveMatch(limit) ==
  \E s \in Slots, gameId \in RequestGameIds, card1Id \in CardIds, card2Id \in CardIds :
    MatchGet(s, limit, gameId, card1Id, card2Id)

ArriveComplete(limit) ==
  \E s \in Slots, gameId \in RequestGameIds, timeElapsed \in TimesElapsed,
     finalScore \in FinalScores :
    CompleteGet(s, limit, gameId, timeElapsed, finalScore)

Arrive(limit) == ArriveStart(limit) \/ ArriveMatch(limit) \/ ArriveComplete(limit)

\* A request in flight takes its next step.
StepStart ==
  \E s \in Slots :
    \/ \E s1 \in Shuffles, s2 \in Shuffles : StartInsertUser(s, s1, s2)
    \/ StartCreateGame(s)
    \/ StartCacheSession(s)
    \/ StartFinish(s)

StepMatch ==
  \E s \in Slots : MatchRecord(s) \/ MatchCacheSession(s) \/ MatchFinish(s)

StepComplete ==
  \E s \in Slots :
    \/ CompleteGame(s)
    \/ CompleteCacheSession(s)
    \/ CompleteDelUserStats(s)
    \/ CompleteDelLeaderboard(s)
    \/ CompleteFinish(s)

Step == StepStart \/ StepMatch \/ StepComplete

Environment == \E gameId \in GameIds : Expire(gameId)

\* Requests issued serially: one at a time.
Next == Arrive(1) \/ Step \/ Environment
Spec == Init /\ [][Next]_vars

\* ------------------------------------------------------------------ faults
\* A catch block that answers 200 instead: C15 must fail of it.
FailSwallowed(s, error) ==
  /\ Respond(s, reqs[s].kind,
             IF "gameId" \in DOMAIN reqs[s] THEN reqs[s].gameId ELSE "none",
             200, "", NoBody, reqs[s].in, reqs[s].pre)
  /\ UNCHANGED <<users, games, game_matches, cache, now, completeOk, pairings,
                 snapshots, call>>

\* The handler's catch block: res.status(500).json({error}), nothing else.
Fail(s, error) ==
  /\ Respond(s, reqs[s].kind,
             IF "gameId" \in DOMAIN reqs[s] THEN reqs[s].gameId ELSE "none",
             500, error, NoBody, reqs[s].in, reqs[s].pre)
  /\ UNCHANGED <<users, games, game_matches, cache, now, completeOk, pairings,
                 snapshots, call>>

At(s, kind, pc) == reqs[s] # Idle /\ reqs[s].kind = kind /\ reqs[s].pc = pc

\* database.createGame throws (the query failed on its last attempt).
StartCreateGameFail(s) ==
  At(s, "start", "createGame") /\ Fail(s, "Failed to start game")

\* redisCache.cacheGameSession throws in POST /start.
StartCacheSessionFail(s) ==
  At(s, "start", "cacheGameSession") /\ Fail(s, "Failed to start game")

\* incrementDailyGames or trackUserActivity throws in POST /start: neither is
\* awaited inside a try block of its own.
StartAnalyticsFail(s) ==
  At(s, "start", "incrementDailyGames") /\ Fail(s, "Failed to start game")

\* database.recordMatch throws.
MatchRecordFail(s) ==
  At(s, "match", "recordMatch") /\ Fail(s, "Failed to process match")

\* redisCache.cacheGameSession throws in POST /match: caught and logged
\* (routes/game.js 214-219), the handler goes on.
MatchCacheSessionFail(s) ==
  /\ At(s, "match", "cacheGameSession")
  /\ reqs' = [reqs EXCEPT ![s].pc = "trackUserActivity"]
  /\ last' = NoResponse
  /\ UNCHANGED <<users, games, game_matches, cache, now, completeOk, pairings,
                 snapshots, call>>

\* redisCache.trackUserActivity throws in POST /match: caught and logged
\* (routes/game.js 222-227), the response follows.
MatchTrackFail(s) ==
  /\ At(s, "match", "trackUserActivity")
  /\ LET r == reqs[s]
     IN  /\ Respond(s, "match", r.gameId, 200, "",
                    matchResponse(r.gameSession, r.pts), r.in, r.pre)
         /\ pairings' = [pairings EXCEPT ![r.gameId] = @ + 1]
  /\ UNCHANGED <<users, games, game_matches, cache, now, completeOk, snapshots, call>>

\* database.completeGame throws (the query failed on its last attempt).
CompleteGameFail(s) ==
  At(s, "complete", "completeGame") /\ Fail(s, "Failed to complete game")

\* redisCache.cacheGameSession throws in POST /complete.
CompleteCacheSessionFail(s) ==
  At(s, "complete", "cacheGameSession") /\ Fail(s, "Failed to complete game")

\* One of the two redisCache.del throws in POST /complete.
CompleteDelFail(s) ==
  /\ reqs[s] # Idle /\ reqs[s].kind = "complete"
  /\ reqs[s].pc \in {"delUserStats", "delLeaderboard"}
  /\ Fail(s, "Failed to complete game")

\* redisCache.trackUserActivity throws in POST /complete: it is not awaited
\* inside a try block of its own.
CompleteTrackFail(s) ==
  At(s, "complete", "trackUserActivity") /\ Fail(s, "Failed to complete game")

\* A write of POST /start, of POST /match, of POST /complete fails.
FaultStart ==
  \E s \in Slots :
    StartCreateGameFail(s) \/ StartCacheSessionFail(s) \/ StartAnalyticsFail(s)

FaultMatch ==
  \E s \in Slots : MatchRecordFail(s) \/ MatchCacheSessionFail(s) \/ MatchTrackFail(s)

FaultComplete ==
  \E s \in Slots :
    \/ CompleteGameFail(s)
    \/ CompleteCacheSessionFail(s)
    \/ CompleteDelFail(s)
    \/ CompleteTrackFail(s)

\* Requests issued one at a time against stores whose writes may fail.
NextFault == Next \/ FaultStart \/ FaultMatch \/ FaultComplete
SpecFault == Init /\ [][NextFault]_vars

\* The bodies of the requests: the well-formed ones, and ones with one field
\* that its schema refuses.
StartBodies ==
  [username : Usernames, difficulty : Difficulties \cup {Absent},
   categories : CategoryFilters]
    \cup [username : {<<>>, <<"a", "b">>, <<"b", "o", "b", "!">>},
          difficulty : Difficulties, categories : {{}}]
    \cup [username : Usernames, difficulty : {"impossible"}, categories : {{}}]
    \cup [username : Usernames, difficulty : Difficulties, categories : {{"jokes"}}]
MatchBodies ==
  [gameId : RequestGameIds, card1Id : CardIds, card2Id : CardIds, matchTime : {NoTime}]
    \cup [gameId : {"invalid-uuid"}, card1Id : {<<"laughing", 1>>},
          card2Id : {<<"laughing", 2>>}, matchTime : {NoTime}]
    \cup [gameId : RequestGameIds, card1Id : {<<"laughing", 1>>},
          card2Id : {<<"laughing", 2>>}, matchTime : {600001}]
CompleteBodies ==
  [gameId : RequestGameIds, timeElapsed : TimesElapsed, finalScore : FinalScores]
    \cup [gameId : {"invalid-uuid"}, timeElapsed : TimesElapsed, finalScore : {0}]
    \cup [gameId : RequestGameIds, timeElapsed : {999}, finalScore : {0}]
    \cup [gameId : RequestGameIds, timeElapsed : TimesElapsed, finalScore : {1001}]

\* createValidator, its error branch: res.status(400).json({error: 'Validation
\* failed', ...}); next() is not called.
ValidationFailed(s, kind, body) ==
  /\ CanBegin(s, 1)
  /\ Respond(s, kind, IF "gameId" \in DOMAIN body THEN body.gameId ELSE "none",
             400, "Validation failed", NoBody, body, Stores)
  /\ UNCHANGED <<users, games, game_matches, cache, now, completeOk, pairings,
                 snapshots, call>>

\* A request with its validator before its handler; difficulty defaults to
\* 'easy'.
StartRequest(s, body, s1, s2) ==
  IF gameStart(body)
  THEN StartSelectUser(s, 1, body.username,
                       IF body.difficulty = Absent THEN "easy" ELSE body.difficulty,
                       body.categories, s1, s2)
  ELSE ValidationFailed(s, "start", body)

MatchRequest(s, body) ==
  IF cardMatch(body)
  THEN MatchGetAt(s, 1, body.gameId, body.card1Id, body.card2Id, {body.matchTime})
  ELSE ValidationFailed(s, "match", body)

CompleteRequest(s, body) ==
  IF gameComplete(body)
  THEN CompleteGet(s, 1, body.gameId, body.timeElapsed, body.finalScore)
  ELSE ValidationFailed(s, "complete", body)

\* Requests of any body, issued one at a time.
NextValidated ==
  \/ \E s \in Slots, body \in StartBodies, s1 \in Shuffles, s2 \in Shuffles :
       StartRequest(s, body, s1, s2)
  \/ \E s \in Slots, body \in MatchBodies : MatchRequest(s, body)
  \/ \E s \in Slots, body \in CompleteBodies : CompleteRequest(s, body)
  \/ Step
  \/ Environment
SpecValidated == Init /\ [][NextValidated]_vars

\* ---------------------------------------------------- GET /scores/:username
\* The usernames a client may ask the stats of: players and one who never played.
ScoresUsernames == Usernames \cup {<<"b", "o", "b">>}

\* The first handler registered for GET /:username on the scores router: it
\* reads no store and answers res.json(...) with placeholder stats under the
\* username of the request. The router has a second handler for the same path
\* (404 'User not found' when mockUsers has no such user), which Express would
\* run only if the first called next(); it does not.
ScoresRequest(s, username) ==
  /\ CanBegin(s, 1)
  /\ Respond(s, "scores", "none", 200, "",
             [user |-> [username |-> username, bestScore |-> 193, totalGames |-> 1]],
             [username |-> username], Stores)
  /\ UNCHANGED <<users, games, game_matches, cache, now, completeOk, pairings,
                 snapshots, call>>

\* The game requests and the stats requests, issued one at a time.
NextScores ==
  \/ Next
  \/ \E s \in Slots, username \in ScoresUsernames : ScoresRequest(s, username)
SpecScores == Init /\ [][NextScores]_vars

\* ----------------------------------------------------------------- GET /health
\* RedisCache.ping that returns instead of throwing: C23 must fail of it.
pingNoThrow(redisUp) == IF redisUp THEN "PONG" ELSE "error"

\* RedisCache.ping (utils/redis.js 91-98): the answer of the server, or the
\* error rethrown.
ping(redisUp) == IF redisUp THEN "PONG" ELSE "throws"

\* database.query('SELECT 1 as healthy'): the row, or the error thrown after
\* the last attempt.
selectHealthy(databaseUp) == IF databaseUp THEN 1 ELSE -1

\* GET /health arrives and awaits the query. databaseUp and redisUp say
\* whether each store answers during this request.
HealthGet(s, databaseUp, redisUp) ==
  /\ CanBegin(s, 1)
  /\ reqs' = [reqs EXCEPT ![s] =
       [kind |-> "health", pc |-> "query", pre |-> Stores,
        in |-> [databaseUp |-> databaseUp, redisUp |-> redisUp]]]
  /\ last' = NoResponse
  /\ UNCHANGED <<users, games, game_matches, cache, now, completeOk, pairings,
                 snapshots, call>>

\* The catch block of GET /health.
Unhealthy(s) ==
  Respond(s, "health", "none", 503, "Service unavailable",
          [status |-> "unhealthy"], reqs[s].in, reqs[s].pre)

\* The query has answered or thrown; on an answer the handler awaits the ping.
HealthQuery(s) ==
  /\ At(s, "health", "query")
  /\ LET healthy == selectHealthy(reqs[s].in.databaseUp)
     IN  IF healthy = -1
         THEN Unhealthy(s)
         ELSE /\ reqs' = [reqs EXCEPT ![s] =
                   [kind |-> "health", pc |-> "ping", pre |-> reqs[s].pre,
                    in |-> reqs[s].in, healthy |-> healthy]]
              /\ last' = NoResponse
  /\ UNCHANGED <<users, games, game_matches, cache, now, completeOk, pairings,
                 snapshots, call>>

\* The ping has answered or thrown: res.status(200).json({status: 'healthy',
\* services}), or the catch block.
HealthPing(s) ==
  /\ At(s, "health", "ping")
  /\ LET redisCheck == ping(reqs[s].in.redisUp)
     IN  IF redisCheck = "throws"
         THEN Unhealthy(s)
         ELSE Respond(s, "health", "none", 200, "",
                      [status |-> "healthy",
                       services |->
                         [database |-> IF reqs[s].healthy = 1 THEN "connected" ELSE "error",
                          redis |-> IF redisCheck = "PONG" THEN "connected" ELSE "error",
                          api |-> "running"]],
                      reqs[s].in, reqs[s].pre)
  /\ UNCHANGED <<users, games, game_matches, cache, now, completeOk, pairings,
                 snapshots, call>>

\* Sessions started and completed and the health asked, one request at a time.
NextHealth ==
  \/ ArriveStart(1) \/ StepStart
  \/ ArriveComplete(1) \/ StepComplete
  \/ Environment
  \/ \E s \in Slots, databaseUp \in BOOLEAN, redisUp \in BOOLEAN :
       HealthGet(s, databaseUp, redisUp)
  \/ \E s \in Slots : HealthQuery(s) \/ HealthPing(s)
SpecHealth == Init /\ [][NextHealth]_vars

\* RedisCache.get when client.get rejects: the catch block logs and returns
\* null (utils/redis.js 143-146).
getOnError == NoSession

\* POST /match and POST /complete when the read of the cached session fails:
\* the handler goes on with what get returned.
MatchGetFail(s, gameId, card1Id, card2Id) ==
  /\ CanBegin(s, 1)
  /\ LET error == matchCheck(getOnError, card1Id, card2Id)
     IN  Respond(s, "match", gameId, errorStatus(error), error, NoBody, NoInput, Stores)
  /\ UNCHANGED <<users, games, game_matches, cache, now, completeOk, pairings,
                 snapshots, call>>

CompleteGetFail(s, gameId) ==
  /\ CanBegin(s, 1)
  /\ LET error == completeCheck(getOnError)
     IN  Respond(s, "complete", gameId, errorStatus(error), error, NoBody, NoInput, Stores)
  /\ UNCHANGED <<users, games, game_matches, cache, now, completeOk, pairings,
                 snapshots, call>>

\* Requests issued one at a time against a cache whose reads may fail.
NextReadFault ==
  \/ Next
  \/ \E s \in Slots, gameId \in RequestGameIds, card1Id \in CardIds, card2Id \in CardIds :
       MatchGetFail(s, gameId, card1Id, card2Id)
  \/ \E s \in Slots, gameId \in RequestGameIds : CompleteGetFail(s, gameId)
SpecReadFault == Init /\ [][NextReadFault]_vars

\* Starts that overlap at their awaits, up to MaxInflight at a time. The store
\* has an id for each game of GameIds: a Start that reaches createGame when
\* they are all given waits there. The sessions are completed one at a time.
NextStartRace ==
  \/ ArriveStart(MaxInflight) \/ StepStart
  \/ ArriveComplete(1) \/ StepComplete
  \/ Environment
SpecStartRace == Init /\ [][NextStartRace]_vars

\* Sessions started and completed with no Match between, requests issued one
\* at a time, against stores whose writes may fail.
NextFaultEnds ==
  \/ ArriveStart(1) \/ StepStart \/ FaultStart
  \/ ArriveComplete(1) \/ StepComplete \/ FaultComplete
  \/ Environment
SpecFaultEnds == Init /\ [][NextFaultEnds]_vars

\* Sessions started and completed, requests issued one at a time, with readers
\* caching snapshots of the leaderboard and of the users' stats in between.
NextSnapshots ==
  \/ ArriveStart(1) \/ StepStart
  \/ ArriveComplete(1) \/ StepComplete
  \/ Environment
  \/ \E key \in SnapshotKeys : CacheSnapshot(key)
SpecSnapshots == Init /\ [][NextSnapshots]_vars

\* The requests in flight of one kind.
InFlightOf(kind) == {s \in InFlight : reqs[s].kind = kind}

\* A Complete arrives while a Match is in flight: the two then interleave at
\* their awaits.
Overlap ==
  \E s \in Slots, gameId \in RequestGameIds, timeElapsed \in TimesElapsed,
     finalScore \in FinalScores :
    /\ InFlightOf("match") # {}
    /\ CompleteGet(s, MaxInflight, gameId, timeElapsed, finalScore)

NextConc == Next \/ Overlap
SpecConc == Init /\ [][NextConc]_vars

\* Match submissions that overlap at their awaits, up to MaxInflight at a time,
\* on sessions started one at a time.
\* The submissions name the two cards of the first pair, carry no matchTime
\* and take the lowest free slot.
RaceCards == {<<emojiPairs[1].id, 1>>, <<emojiPairs[1].id, 2>>}
RaceMatch ==
  \E s \in Slots, gameId \in RequestGameIds, card1Id \in RaceCards, card2Id \in RaceCards :
    /\ \A t \in Slots : t < s => reqs[t] # Idle
    /\ MatchGetAt(s, MaxInflight, gameId, card1Id, card2Id, {NoTime})

NextMatchRace ==
  \/ ArriveStart(1) \/ StepStart
  \/ RaceMatch \/ StepMatch
SpecMatchRace == Init /\ [][NextMatchRace]_vars

\* ------------------------------------------------------ functions on their own
\* The variables of the game service, which a call of a function on its own
\* leaves alone.
service == <<users, games, game_matches, cache, reqs, now, last, completeOk, pairings,
             snapshots>>

\* Database.query(text, params) (models/database.js 68-109).
maxRetries == 3
retryDelay == 1000

\* The queries, and what pool.query can answer: a result, or an error.
QueryTexts == {"SELECT", "INSERT", "UPDATE"}
QueryRows == {"row1", "row2"}
QueryErrors == {"ECONNREFUSED", "ETIMEDOUT", "23505"}

\* The catch block that always waits and tries again: C17 must fail of it.
afterErrorRetry(attempt) == "wait"

\* The catch block of query: wait and go round the loop, or throw.
afterError(attempt) == IF attempt < maxRetries THEN "wait" ELSE "thrown"

\* query(text) is called: attempt = 1, at pool.query. answers and waits are
\* history: what pool.query answered to each attempt, and the delays waited.
QueryCall(text) ==
  /\ call = NoCall
  /\ call' = [fn |-> "query", text |-> text, attempt |-> 1, pc |-> "poolQuery",
              answers |-> <<>>, waits |-> <<>>, isConnected |-> FALSE, out |-> "none"]
  /\ UNCHANGED service

\* pool.query resolves: isConnected = true; return result.
PoolQueryResolves(result) ==
  /\ call.fn = "query" /\ call.pc = "poolQuery"
  /\ call' = [call EXCEPT !.answers = Append(@, [ok |-> TRUE, value |-> result]),
                          !.isConnected = TRUE, !.pc = "returned", !.out = result]
  /\ UNCHANGED service

\* pool.query rejects: the catch block.
PoolQueryRejects(error) ==
  /\ call.fn = "query" /\ call.pc = "poolQuery"
  /\ LET pc == afterError(call.attempt)
     IN  call' = [call EXCEPT !.answers = Append(@, [ok |-> FALSE, value |-> error]),
                              !.pc = pc,
                              !.isConnected = IF pc = "thrown" THEN FALSE ELSE @,
                              !.out = IF pc = "thrown" THEN error ELSE @]
  /\ UNCHANGED service

\* setTimeout(resolve, retryDelay) fires: attempt++ and round the loop.
QueryRetry ==
  /\ call.fn = "query" /\ call.pc = "wait"
  /\ call' = [call EXCEPT !.waits = Append(@, retryDelay), !.attempt = @ + 1,
                          !.pc = "poolQuery"]
  /\ UNCHANGED service

\* The caller has the result or the error of the call.
CallEnds ==
  /\ call # NoCall /\ call.pc \in {"returned", "thrown"}
  /\ call' = NoCall
  /\ UNCHANGED service

NextQuery ==
  \/ \E text \in QueryTexts : QueryCall(text)
  \/ \E result \in QueryRows : PoolQueryResolves(result)
  \/ \E error \in QueryErrors : PoolQueryRejects(error)
  \/ QueryRetry
  \/ CallEnds
SpecQuery == Init /\ [][NextQuery]_vars

\* generateCardSet on its own: the tiers, category filters with none, too few
\* and enough emojis for a tier, and three outcomes of each shuffle.
AllDifficulties == {"easy", "medium", "hard", "expert"}
DeckFilters ==
  {{}, {"love"}, {"food"}, {"classic", "food", "space"},
   {"classic", "food", "space", "silly", "luxury", "fantasy"}}
DeckShuffles == {"keep", "reverse", "rotate"}

GenerateCardSetCall(difficulty, categories, s1, s2) ==
  /\ call = NoCall
  /\ call' = [fn |-> "generateCardSet", pc |-> "returned",
              difficulty |-> difficulty, categories |-> categories,
              out |-> generateCardSetAll(difficulty, categories, s1, s2)]
  /\ UNCHANGED service

NextDeck ==
  \/ \E difficulty \in AllDifficulties, categories \in DeckFilters,
        s1 \in DeckShuffles, s2 \in DeckShuffles :
       GenerateCardSetCall(difficulty, categories, s1, s2)
  \/ CallEnds
SpecDeck == Init /\ [][NextDeck]_vars

\* calculateScore on its own, for inputs on both sides of each of its tests:
\* half of each tier's time limit, no wrong move, the two wrong moves that are
\* free, the streak of 3, and the streak of 10 that reaches maxStreakBonus.
ScoreMatches == {0, 1, 8, 15}
ScoreWrongMoves == {0, 1, 2, 3, 40}
ScoreTimes == {0, 149999, 150000, 449999, 450000, 900000}
ScoreStreaks == {0, 2, 3, 10, 15}

CalculateScoreCall(gameStats) ==
  /\ call = NoCall
  /\ call' = [fn |-> "calculateScore", pc |-> "returned", in |-> gameStats,
              out |-> calculateScore(gameStats)]
  /\ UNCHANGED service

NextScore ==
  \/ \E matches \in ScoreMatches, wrongMoves \in ScoreWrongMoves,
        timeElapsed \in ScoreTimes, difficulty \in AllDifficulties,
        consecutiveMatches \in ScoreStreaks :
       CalculateScoreCall([matches |-> matches, wrongMoves |-> wrongMoves,
                           timeElapsed |-> timeElapsed, difficulty |-> difficulty,
                           consecutiveMatches |-> consecutiveMatches])
  \/ CallEnds
SpecScore == Init /\ [][NextScore]_vars

\* -------------------------------------------- trigger_update_user_stats
\* best_time of a user with no completed game (combined-init.sql 25: NULL).
Null == -1

\* The row INSERT INTO users (username, email, display_name) creates, with the
\* defaults of the table (combined-init.sql 14-27).
newUser == [total_games |-> 0, total_score |-> 0, best_score |-> 0, best_time |-> Null]

\* update_user_stats with no look at OLD.game_completed: C30 must fail of it.
update_user_statsUnguarded(user, old, new) ==
  IF new.game_completed
  THEN [total_games |-> user.total_games + 1,
        total_score |-> user.total_score + new.score,
        best_score |-> Max(user.best_score, new.score),
        best_time |-> IF user.best_time = Null \/ new.time_elapsed < user.best_time
                      THEN new.time_elapsed ELSE user.best_time]
  ELSE user

\* update_user_stats() (combined-init.sql 86-108), run AFTER UPDATE ON games FOR
\* EACH ROW: what it makes of the row of the user NEW.user_id.
update_user_stats(user, old, new) ==
  IF new.game_completed /\ ~old.game_completed
  THEN [total_games |-> user.total_games + 1,
        total_score |-> user.total_score + new.score,
        best_score |-> Max(user.best_score, new.score),
        best_time |-> IF user.best_time = Null \/ new.time_elapsed < user.best_time
                      THEN new.time_elapsed ELSE user.best_time]
  ELSE user

\* The tables users and games on their own: games are created for either of
\* two users and the UPDATE of completeGame is executed on them, more than
\* once too. call.first keeps what the first UPDATE of each game wrote.
StatsUsers == {<<"a", "l", "i", "c", "e">>, <<"b", "o", "b">>}
StatsGameIds == 1..MaxGames
StatsScores == {100, 300}

StatsBegin ==
  /\ call = NoCall
  /\ call' = [fn |-> "update_user_stats", pc |-> "returned",
              users |-> [u \in StatsUsers |-> newUser],
              games |-> [g \in StatsGameIds |-> NoRow],
              first |-> [g \in StatsGameIds |-> <<>>],
              updates |-> [g \in StatsGameIds |-> 0]]
  /\ UNCHANGED service

StatsCreateGame(g, username) ==
  /\ call # NoCall /\ call.fn = "update_user_stats"
  /\ call.games[g] = NoRow
  /\ call' = [call EXCEPT !.games[g] = createGame(g, username, "easy")]
  /\ UNCHANGED service

\* UPDATE games SET ... game_completed = true WHERE id = $1 and, after it, the
\* trigger on the row. A game is updated twice at most.
StatsCompleteGame(g, score, timeElapsed) ==
  /\ call # NoCall /\ call.fn = "update_user_stats"
  /\ call.games[g] # NoRow
  /\ call.updates[g] < 2
  /\ LET old == call.games[g]
         new == completeGame(old, score, 2, timeElapsed, 1)
     IN  call' = [call EXCEPT
           !.games[g] = new,
           !.users[new.username] = update_user_stats(@, old, new),
           !.first[g] = IF @ = <<>> THEN <<[score |-> score, time_elapsed |-> timeElapsed]>>
                        ELSE @,
           !.updates[g] = @ + 1]
  /\ UNCHANGED service

NextUserStats ==
  \/ StatsBegin
  \/ \E g \in StatsGameIds, username \in StatsUsers : StatsCreateGame(g, username)
  \/ \E g \in StatsGameIds, score \in StatsScores, timeElapsed \in TimesElapsed :
       StatsCompleteGame(g, score, timeElapsed)
  \/ CallEnds
SpecUserStats == Init /\ [][NextUserStats]_vars

\* gameStats on its own (routes/game.js 324-330), for sessions whose match
\* events carry any of StreakStamps in any order and whose moves are the
\* matches and up to two wrong attempts.
StreakStamps == {0, 30000, 30001, 60001, 100000}
RECURSIVE StreakMatches(_)
StreakMatches(n) ==
  IF n = 0 THEN {<<>>}
  ELSE LET shorter == StreakMatches(n - 1)
       IN  shorter \cup {Append(m, [timestamp |-> t]) :
                            m \in {x \in shorter : Len(x) = n - 1}, t \in StreakStamps}

GameStatsCall(matches, wrong, timeElapsed) ==
  /\ call = NoCall
  /\ LET gameSession == [matches |-> matches, moves |-> Len(matches) + wrong,
                         difficulty |-> "easy"]
     IN  call' = [fn |-> "gameStats", pc |-> "returned", in |-> gameSession,
                  out |-> gameStatsOf(gameSession, timeElapsed)]
  /\ UNCHANGED service

NextGameStats ==
  \/ \E matches \in StreakMatches(MaxStreakLen), wrong \in 0..2,
        timeElapsed \in TimesElapsed :
       GameStatsCall(matches, wrong, timeElapsed)
  \/ CallEnds
SpecGameStats == Init /\ [][NextGameStats]_vars

\* The Start response on its own, for two sessions of one tier and one
\* selection of emojis whose decks were shuffled apart (s2 and t2).
StartResponsesCall(difficulty, categories, s1, s2, t2) ==
  /\ call = NoCall
  /\ LET deck1 == generateCardSetAll(difficulty, categories, s1, s2)
         deck2 == generateCardSetAll(difficulty, categories, s1, t2)
     IN  call' = [fn |-> "startResponse", pc |-> "returned",
                  decks |-> <<deck1, deck2>>,
                  out |-> <<startResponse("g1", difficulty, deck1),
                            startResponse("g1", difficulty, deck2)>>]
  /\ UNCHANGED service

NextStartResponses ==
  \/ \E difficulty \in AllDifficulties, categories \in DeckFilters,
        s1 \in DeckShuffles, s2 \in DeckShuffles, t2 \in DeckShuffles :
       StartResponsesCall(difficulty, categories, s1, s2, t2)
  \/ CallEnds
SpecStartResponses == Init /\ [][NextStartResponses]_vars

\* ================================================================== claims
\* What a response says of the session it was about.
IsResponse(kind, status) ==
  last # NoResponse /\ last.kind = kind /\ last.status = status

\* A Complete of game g is past its checks: its score is computed.
Scoring(rs, g) ==
  \E s \in Slots : rs[s] # Idle /\ rs[s].kind = "complete" /\ rs[s].gameId = g

\* C1: once a Complete of a game was answered 200, no later Complete of that
\* game computes a score or changes the game row: it is answered 400 'Game
\* already completed' (404 once the cached session has expired) and changes
\* nothing in either store.
C1_CompleteOnce ==
  [][\A g \in GameIds :
       completeOk[g] =>
         /\ games'[g] = games[g]
         /\ ~Scoring(reqs', g)
         /\ (last' # NoResponse /\ last'.kind = "complete" /\ last'.gameId = g) =>
              /\ Stores' = Stores
              /\ IF cache[g] # NoSession
                 THEN last'.status = 400 /\ last'.error = "Game already completed"
                 ELSE last'.status = 404]_vars

\* C1, its case: a second Complete was answered with the conflict.
C1_Witness ==
  \E g \in GameIds :
    /\ completeOk[g]
    /\ IsResponse("complete", 400)
    /\ last.gameId = g /\ last.error = "Game already completed"

\* C2: once the cached session's isCompleted is true it never becomes false
\* again, whatever the interleaving of the requests.
C2_FlagMonotonic ==
  [][\A g \in GameIds :
       (cache[g] # NoSession /\ cache[g].isCompleted /\ cache'[g] # NoSession)
         => cache'[g].isCompleted]_vars

\* C3: a Match that finds the cached session completed is answered 400 'Game
\* already completed' and leaves the cached session and both stores as they were.
C3_MatchAfterCompletion ==
  \A g \in GameIds :
    (last # NoResponse /\ last.kind = "match" /\ last.gameId = g
       /\ last.pre.cache[g] # NoSession /\ last.pre.cache[g].isCompleted)
      => /\ last.status = 400
         /\ last.error = "Game already completed"
         /\ Stores = last.pre

\* C3, its case: a Match on a completed session was answered.
C3_Witness ==
  \E g \in GameIds :
    /\ IsResponse("match", 400) /\ last.gameId = g
    /\ last.pre.cache[g] # NoSession /\ last.pre.cache[g].isCompleted
    /\ game_matches # <<>>

\* C4: with no request in flight, the cached move counter equals the number of
\* Match submissions of the game that were evaluated as pairings (answered 200),
\* matched or not; and each such answer reports that number.
C4_MovesCountSubmissions ==
  \A g \in GameIds :
    /\ (InFlight = {} /\ cache[g] # NoSession) => cache[g].moves = pairings[g]
    /\ (IsResponse("match", 200) /\ last.gameId = g) =>
         /\ last.body.moves = pairings[g]
         /\ cache[g].moves = last.pre.cache[g].moves + 1

\* C4, its case: two submissions, one matched and one not.
C4_Witness ==
  \E g \in GameIds :
    /\ InFlight = {} /\ cache[g] # NoSession
    /\ pairings[g] = 2 /\ Len(cache[g].matches) = 1

\* The sessions there are of game g: the cached one and the handlers' locals.
SessionsOf(g) ==
  {cache[g]} \cup {reqs[s].gameSession :
                     s \in {t \in InFlight : reqs[t].pc \notin {"insertUser", "createGame"}
                                             /\ reqs[t].gameId = g}}

\* C5: in every session, cached or local to a handler, moves >= matches.length.
C5_MovesAtLeastMatches ==
  \A g \in GameIds : \A session \in SessionsOf(g) \ {NoSession} :
    session.moves >= Len(session.matches)

\* C5, its case: a session with a match and with more moves than matches.
C5_Witness ==
  \E g \in GameIds :
    /\ cache[g] # NoSession
    /\ Len(cache[g].matches) >= 1
    /\ cache[g].moves > Len(cache[g].matches)

deckIds(session) == {session.cards[i].id : i \in DOMAIN session.cards}
cardOf(session, cardId) ==
  session.cards[CHOOSE i \in DOMAIN session.cards : session.cards[i].id = cardId]

\* C7: on a cached session in progress, a submission with a card id that is
\* not in the deck is refused as 'Invalid card IDs', and one whose cards are in
\* the deck and one of them matched as 'Cards already matched'; a request so
\* refused is answered 400 and leaves the session and the tables as they were.
C7_RejectedCards ==
  \A g \in GameIds :
    /\ (cache[g] # NoSession /\ ~cache[g].isCompleted) =>
         \A card1Id \in CardIds, card2Id \in CardIds :
           IF card1Id \notin deckIds(cache[g]) \/ card2Id \notin deckIds(cache[g])
           THEN matchCheck(cache[g], card1Id, card2Id) = "Invalid card IDs"
           ELSE (cardOf(cache[g], card1Id).isMatched \/ cardOf(cache[g], card2Id).isMatched)
                  => matchCheck(cache[g], card1Id, card2Id) = "Cards already matched"
    /\ (last # NoResponse /\ last.kind = "match" /\ last.gameId = g
          /\ last.error \in {"Invalid card IDs", "Cards already matched"})
         => last.status = 400 /\ Stores = last.pre

\* C7, its case: a card of a matched pair was submitted again.
C7_Witness ==
  \E g \in GameIds :
    /\ IsResponse("match", 400) /\ last.gameId = g
    /\ last.error = "Cards already matched"
    /\ cache[g].score > 0

\* The Match answered 200 by the step just taken was about game g.
Paired(g) == IsResponse("match", 200) /\ last.gameId = g

\* C8: a Match of the two cards of a pair, with matchTime below the tier's
\* bonusTimeThreshold, answers isMatch with pointsEarned = pointsPerMatch +
\* bonusPoints, marks both cards, appends one event to the cached match list
\* and one row to game_matches, and adds those points to the score.
C8_PairWithinBonusWindow ==
  \A g \in GameIds :
    Paired(g) =>
      LET pre == last.pre.cache[g]
          config == gameConfig.difficulties[pre.difficulty]
      IN  (/\ last.in.card1Id # last.in.card2Id
           /\ cardOf(pre, last.in.card1Id).pairId = cardOf(pre, last.in.card2Id).pairId
           /\ last.in.matchTime # NoTime
           /\ last.in.matchTime < config.bonusTimeThreshold)
          => /\ last.body.isMatch
             /\ last.body.pointsEarned = config.pointsPerMatch + config.bonusPoints
             /\ cardOf(cache[g], last.in.card1Id).isMatched
             /\ cardOf(cache[g], last.in.card2Id).isMatched
             /\ Len(cache[g].matches) = Len(pre.matches) + 1
             /\ Len(game_matches) = Len(last.pre.game_matches) + 1
             /\ cache[g].score = pre.score + last.body.pointsEarned

\* C9: a Match of two cards of different pairs answers isMatch = false and
\* pointsEarned = 0, and afterwards the stores are as the request found them
\* but for the cached move counter, which is one more.
C9_MissOnlyCountsMove ==
  \A g \in GameIds :
    Paired(g) =>
      LET pre == last.pre.cache[g]
      IN  cardOf(pre, last.in.card1Id).pairId # cardOf(pre, last.in.card2Id).pairId
          => /\ ~last.body.isMatch
             /\ last.body.pointsEarned = 0
             /\ Stores = [last.pre EXCEPT !.cache[g].moves = @ + 1]

\* C9, its case: a miss after a pair was found.
C9_Witness ==
  \E g \in GameIds :
    /\ Paired(g) /\ ~last.body.isMatch
    /\ game_matches # <<>>

\* The pairs of the deck that have both cards matched.
matchedPairs(session) ==
  {p \in {session.cards[i].pairId : i \in DOMAIN session.cards} :
     \A i \in DOMAIN session.cards :
       session.cards[i].pairId = p => session.cards[i].isMatched}

\* C10: a Match answers isComplete exactly when, after its update, the matched
\* pairs of the deck are all its pairs; and it leaves isCompleted as it was.
C10_CompleteSignal ==
  \A g \in GameIds :
    Paired(g) =>
      /\ last.body.isComplete
           <=> Cardinality(matchedPairs(cache[g])) = Len(cache[g].cards) \div 2
      /\ cache[g].isCompleted = last.pre.cache[g].isCompleted

\* C11: the cached session is marked completed only after the row of the game
\* is: no step leads to a state where the cached session is completed and the
\* row is not; and when database.completeGame fails, the request ends with 500
\* there and then, cache and row as they were.
C11_DurableBeforeCached ==
  [][/\ \A g \in GameIds :
          (cache'[g] # NoSession /\ cache'[g].isCompleted)
            => (games'[g] # NoRow /\ games'[g].game_completed)
     /\ \A s \in Slots :
          CompleteGameFail(s)
            => /\ cache' = cache /\ games' = games
               /\ reqs'[s] = Idle
               /\ last'.status = 500 /\ last'.error = "Failed to complete game"]_vars

\* C11, its case: the completion write failed and the session is still in progress.
C11_Witness ==
  \E g \in GameIds :
    /\ IsResponse("complete", 500) /\ last.gameId = g
    /\ cache[g] # NoSession /\ ~cache[g].isCompleted
    /\ ~games[g].game_completed

C14_NonCriticalSwallowed ==
  [][\A s \in Slots :
       (StartAnalyticsFail(s) \/ MatchTrackFail(s) \/ CompleteTrackFail(s))
         => ~(last' # NoResponse /\ last'.status = 500)]_vars

\* C15: when database.createGame fails, the Start ends there with 500 'Failed
\* to start game' and the session cache is as it was, and no session is ever
\* cached for a game that has no row; when database.completeGame fails, the
\* Complete ends there with 500 'Failed to complete game'.
C15_StoreFailurePropagates ==
  [][/\ \A g \in GameIds : cache'[g] # NoSession => games'[g] # NoRow
     /\ \A s \in Slots :
          /\ StartCreateGameFail(s)
               => /\ reqs'[s] = Idle
                  /\ last' # NoResponse /\ last'.kind = "start"
                  /\ last'.status = 500 /\ last'.error = "Failed to start game"
                  /\ cache' = cache /\ games' = games
          /\ CompleteGameFail(s)
               => /\ reqs'[s] = Idle
                  /\ last' # NoResponse /\ last'.kind = "complete"
                  /\ last'.status = 500 /\ last'.error = "Failed to complete game"]_vars

\* C15, its case: the user was created, createGame failed, and there is
\* neither a row nor a cached session.
C15_Witness ==
  /\ IsResponse("start", 500)
  /\ last.in.username \in users
  /\ \A g \in GameIds : games[g] = NoRow /\ cache[g] = NoSession

\* C16: a Start that found no user of its username when it looked is not
\* answered 500 because another Start created that user in the meantime; and
\* no username ever has two rows (users is keyed by the UNIQUE username).
C16_CreateOrGetIdempotent ==
  [][\A s \in Slots :
       (At(s, "start", "insertUser") /\ reqs[s].in.username \in users
          /\ \E s1 \in Shuffles, s2 \in Shuffles : StartInsertUser(s, s1, s2))
         => ~(last' # NoResponse /\ last'.status = 500)]_vars

\* C17: a call of query runs pool.query at most maxRetries times, waits
\* retryDelay between two attempts, returns the result of the first attempt
\* that succeeds, and throws the error of the last attempt once maxRetries
\* attempts have failed.
C17_BoundedRetry ==
  call.fn = "query" =>
    /\ Len(call.answers) <= maxRetries
    /\ call.attempt <= maxRetries
    /\ \A i \in DOMAIN call.waits : call.waits[i] = retryDelay
    /\ Len(call.waits) = call.attempt - 1
    /\ \A i \in DOMAIN call.answers :
         call.answers[i].ok => i = Len(call.answers) /\ call.pc = "returned"
    /\ call.pc = "poolQuery" => Len(call.answers) = call.attempt - 1
    /\ call.pc = "wait" => Len(call.answers) = call.attempt
    /\ call.pc = "returned" =>
         /\ Len(call.answers) = call.attempt
         /\ call.answers[call.attempt].ok
         /\ call.out = call.answers[call.attempt].value
    /\ call.pc = "thrown" =>
         /\ Len(call.answers) = maxRetries
         /\ \A i \in DOMAIN call.answers : ~call.answers[i].ok
         /\ call.out = call.answers[maxRetries].value

\* C17, its case: a call that returned on its last attempt, after two
\* failures and two delays.
C17_Witness ==
  /\ call.fn = "query" /\ call.pc = "returned"
  /\ call.attempt = maxRetries /\ call.waits = <<retryDelay, retryDelay>>

\* C18: for every tier and category filter, the deck generateCardSet returns
\* has config.cardCount cards, every pair id of the deck is on exactly two
\* cards, the card ids and the positions are pairwise distinct (the positions
\* are 0 .. cardCount - 1), and no card is flipped or matched.
C18_DeckWellFormed ==
  call.fn = "generateCardSet" =>
    LET cards == call.out
        config == gameConfig.difficulties[call.difficulty]
    IN  /\ Len(cards) = config.cardCount
        /\ \A i \in DOMAIN cards :
             /\ Cardinality({j \in DOMAIN cards : cards[j].pairId = cards[i].pairId}) = 2
             /\ ~cards[i].isFlipped /\ ~cards[i].isMatched
             /\ cards[i].position \in 0..(config.cardCount - 1)
        /\ \A i, j \in DOMAIN cards :
             i # j => /\ cards[i].position # cards[j].position
                      /\ cards[i].id # cards[j].id

\* C18, its case: an expert deck asked with a filter that matches one emoji
\* only; the deck then has cards of other categories.
C18_Witness ==
  /\ call.fn = "generateCardSet"
  /\ call.difficulty = "expert" /\ call.categories = {"love"}
  /\ Len(call.out) = 30
  /\ \E i \in DOMAIN call.out : call.out[i].category # "love"

\* The running total of calculateScore before its last line: the components of
\* the breakdown less the penalties.
runningTotal(breakdown) ==
  breakdown.baseScore + breakdown.bonusPoints + breakdown.speedBonus
    + breakdown.perfectGameBonus + breakdown.streakBonus - breakdown.penalties

\* C19: the total calculateScore returns is never negative.
C19_TotalNotNegative ==
  call.fn = "calculateScore" => call.out.totalScore >= 0

\* C19, its case: the penalties are more than the rest of the breakdown.
C19_Witness ==
  /\ call.fn = "calculateScore"
  /\ runningTotal(call.out.breakdown) < 0
  /\ call.out.totalScore = 0

\* Each component of the breakdown is what C20 says it is.
Attributable(in, breakdown) ==
  LET config == gameConfig.difficulties[in.difficulty]
      scoring == gameConfig.scoring
  IN  /\ breakdown.baseScore = in.matches * config.pointsPerMatch
      /\ breakdown.speedBonus # 0 => 2 * in.timeElapsed < config.timeLimit
      /\ (2 * in.timeElapsed < config.timeLimit)
           => breakdown.speedBonus = (breakdown.baseScore * 3) \div 2
      /\ in.wrongMoves = 0 => breakdown.perfectGameBonus = scoring.perfectGameBonus
      /\ in.wrongMoves # 0 => breakdown.perfectGameBonus = 0
      /\ breakdown.streakBonus =
           IF in.consecutiveMatches >= 3
           THEN Min(in.consecutiveMatches * scoring.streakBonus, scoring.maxStreakBonus)
           ELSE 0
      /\ breakdown.penalties = Max(0, in.wrongMoves - 2) * 2

\* C20 as stated: the total is the components of the breakdown less the
\* penalties, and each component is attributable.
C20_TotalIsSum ==
  call.fn = "calculateScore" =>
    /\ call.out.totalScore = runningTotal(call.out.breakdown)
    /\ Attributable(call.in, call.out.breakdown)

\* C20 as amended: the total is the components of the breakdown less the
\* penalties, or 0 when that is negative, and each component is attributable.
C20_TotalIsClampedSum ==
  call.fn = "calculateScore" =>
    /\ call.out.totalScore = Max(0, runningTotal(call.out.breakdown))
    /\ Attributable(call.in, call.out.breakdown)

\* C20, its case: no wrong move, less than half the time limit and a streak
\* that reaches the cap; the total is base + speed + perfect + streak.
C20_Witness ==
  /\ call.fn = "calculateScore"
  /\ call.in.wrongMoves = 0 /\ call.in.matches = 15 /\ call.in.difficulty = "medium"
  /\ call.in.consecutiveMatches = 15
  /\ call.out.breakdown.speedBonus = 337
  /\ call.out.totalScore = 225 + 337 + 50 + 30

\* A username as the claim wants it: not empty, letters and digits only.
WellFormedName(username) ==
  username # <<>> /\ \A i \in DOMAIN username : username[i] \in AlnumChars

C22_UnknownUser404 ==
  (last # NoResponse /\ last.kind = "scores") =>
    IF last.in.username \in users
    THEN last.status = 200
    ELSE last.status = 404 /\ last.error = "User not found"

\* C23: GET /health is answered 200 with status 'healthy' when the query and
\* the ping both answer, and 503 with status 'unhealthy' when either fails.
C23_HealthReflectsStores ==
  (last # NoResponse /\ last.kind = "health") =>
    IF last.in.databaseUp /\ last.in.redisUp
    THEN /\ last.status = 200 /\ last.body.status = "healthy"
         /\ last.body.services.database = "connected"
         /\ last.body.services.redis = "connected"
    ELSE last.status = 503 /\ last.body.status = "unhealthy"

\* C23, its case: the database answers and the cache does not, with a session
\* in the cache.
C23_Witness ==
  /\ IsResponse("health", 503)
  /\ last.in.databaseUp /\ ~last.in.redisUp
  /\ \E g \in GameIds : cache[g] # NoSession

\* Which positions of a deck are paired: the sets of two positions whose cards
\* have one pairId.
pairedPositions(deck) ==
  {{deck[i].position, deck[j].position} :
     <<i, j>> \in {ij \in (DOMAIN deck) \X (DOMAIN deck) :
                    ij[1] # ij[2] /\ deck[ij[1]].pairId = deck[ij[2]].pairId}}

\* C24: two sessions of one tier with the same emojis, which differ in which
\* positions are paired, get the same cards in their Start responses.
C24_PairingHidden ==
  call.fn = "startResponse" =>
    ((/\ {call.decks[1][i].pairId : i \in DOMAIN call.decks[1]}
           = {call.decks[2][i].pairId : i \in DOMAIN call.decks[2]}
      /\ pairedPositions(call.decks[1]) # pairedPositions(call.decks[2]))
     => call.out[1].cards = call.out[2].cards)

\* C25: a Match or a Complete whose read of the cached session fails, while
\* the session is in the cache, is answered 500, not 404 'Game session not
\* found'.
C25_ReadFailureIs500 ==
  [][\A s \in Slots, gameId \in RequestGameIds :
       (/\ cache[gameId] # NoSession
        /\ \/ \E card1Id \in CardIds, card2Id \in CardIds :
                MatchGetFail(s, gameId, card1Id, card2Id)
           \/ CompleteGetFail(s, gameId))
         => (last'.status = 500 /\ last'.status # 404)]_vars

\* The rows of game_matches of game g.
rowsOf(g) == SelectSeq(game_matches, LAMBDA row : row.game_id = g)

\* C26: nothing keeps two Match submissions of one session apart. What does
\* hold when they overlap: every event of the cached match list was logged
\* first, so the list is never longer than the log, and the cached move count
\* never exceeds the submissions answered; the log and the answers may run
\* ahead of the cache (C26_Witness).
C26_CacheBehindLog ==
  \A g \in GameIds :
    (InFlight = {} /\ cache[g] # NoSession) =>
      /\ Len(cache[g].matches) <= Len(rowsOf(g))
      /\ \A i \in DOMAIN cache[g].matches :
           \E k \in DOMAIN game_matches :
             /\ game_matches[k].game_id = g
             /\ game_matches[k].card1_id = cache[g].matches[i].card1Id
             /\ game_matches[k].card2_id = cache[g].matches[i].card2Id
      /\ cache[g].moves <= pairings[g]

\* C26, its case: two Match submissions of the same pair were both answered
\* 200 and both logged, and the cached session has one event and one move.
C26_Witness ==
  \E g \in GameIds :
    /\ InFlight = {} /\ cache[g] # NoSession
    /\ pairings[g] = 2
    /\ Len(rowsOf(g)) = 2
    /\ {rowsOf(g)[1].card1_id, rowsOf(g)[1].card2_id}
         = {rowsOf(g)[2].card1_id, rowsOf(g)[2].card2_id}
    /\ rowsOf(g)[1].card1_id # rowsOf(g)[1].card2_id
    /\ Len(cache[g].matches) = 1 /\ cache[g].moves = 1

\* The timestamps of the events of a match list.
stampsOf(matches) == {matches[i].timestamp : i \in DOMAIN matches}

\* Every event stamped in (lo, hi] comes within StreakGapMs of an earlier event
\* stamped lo or later.
Unbroken(matches, lo, hi) ==
  \A t \in stampsOf(matches) :
    (lo < t /\ t <= hi) =>
      \E u \in stampsOf(matches) : lo <= u /\ u < t /\ t - u <= StreakGapMs

\* The length of the longest run of events, in timestamp order, each within
\* StreakGapMs of the one before.
longestRun(matches) ==
  LET runs == {Cardinality({i \in DOMAIN matches :
                              lo <= matches[i].timestamp /\ matches[i].timestamp <= hi}) :
                 <<lo, hi>> \in {p \in stampsOf(matches) \X stampsOf(matches) :
                                   p[1] <= p[2] /\ Unbroken(matches, p[1], p[2])}}
  IN  IF runs = {} THEN 0 ELSE CHOOSE n \in runs : \A m \in runs : m <= n

\* C27: the stats Complete computes count as wrong moves the moves that are not
\* matches, and as streak the longest run of matches, in timestamp order, each
\* within 30 s of the one before; the streak of no matches is 0.
C27_WrongMovesAndStreak ==
  (call # NoCall /\ call.fn = "gameStats") =>
    /\ call.out.wrongMoves = call.in.moves - Len(call.in.matches)
    /\ call.out.consecutiveMatches = longestRun(call.in.matches)
    /\ (call.in.matches = <<>> => call.out.consecutiveMatches = 0)

\* C27, its case: three matches logged out of timestamp order, two of them
\* 30 s apart and the third later than that, and one wrong move.
C27_Witness ==
  /\ call # NoCall /\ call.fn = "gameStats"
  /\ Len(call.in.matches) = 3
  /\ call.in.matches[1].timestamp = 100000
  /\ call.in.matches[2].timestamp = 30000
  /\ call.in.matches[3].timestamp = 0
  /\ call.out.consecutiveMatches = 2
  /\ call.out.wrongMoves = 1

\* The cards of a session whose matched flag is set.
flagged(session) == {i \in DOMAIN session.cards : session.cards[i].isMatched}

\* C28: in every cached session the match list has half as many events as
\* there are cards with the matched flag set, and no more events than the deck
\* has pairs; a Match naming one card twice is not recorded as a match.
C28_MatchListCountsPairs ==
  \A g \in GameIds :
    cache[g] # NoSession =>
      /\ 2 * Len(cache[g].matches) = Cardinality(flagged(cache[g]))
      /\ Len(cache[g].matches) <= Len(cache[g].cards) \div 2
      /\ \A i \in DOMAIN cache[g].matches :
           cache[g].matches[i].card1Id # cache[g].matches[i].card2Id

\* The base and bonus points of the rows of a log, added up.
RECURSIVE loggedPoints(_)
loggedPoints(rows) ==
  IF rows = <<>> THEN 0
  ELSE rows[1].points_earned + rows[1].bonus_points + loggedPoints(Tail(rows))

\* C29: between two requests, whatever writes of earlier Match requests
\* failed, the log and the cached match list of a session hold the same
\* events: no two rows of the same two cards, every row with its event in the
\* cached list, at the same place, and the cached score the sum of the logged
\* base and bonus points.
C29_LogAndCacheAgree ==
  \A g \in GameIds :
    (InFlight = {} /\ cache[g] # NoSession) =>
      /\ \A i, k \in DOMAIN rowsOf(g) :
           {rowsOf(g)[i].card1_id, rowsOf(g)[i].card2_id}
             = {rowsOf(g)[k].card1_id, rowsOf(g)[k].card2_id} => i = k
      /\ Len(rowsOf(g)) = Len(cache[g].matches)
      /\ \A i \in DOMAIN rowsOf(g) :
           /\ i \in DOMAIN cache[g].matches
           /\ cache[g].matches[i].card1Id = rowsOf(g)[i].card1_id
           /\ cache[g].matches[i].card2Id = rowsOf(g)[i].card2_id
      /\ cache[g].score = loggedPoints(rowsOf(g))

\* The games of a user that were completed, and what their first completion
\* wrote.
completedOf(u) ==
  {g \in StatsGameIds : call.games[g] # NoRow /\ call.games[g].username = u
                          /\ call.first[g] # <<>>}
RECURSIVE firstScores(_)
firstScores(gs) ==
  IF gs = {} THEN 0
  ELSE LET g == CHOOSE x \in gs : TRUE
       IN  call.first[g][1].score + firstScores(gs \ {g})

\* C30: the stats of a user count each of the user's completed games once,
\* however often the completion write of a game was executed: total_games is
\* their number, total_score the sum of their final scores, best_score the
\* highest and best_time the shortest of them.
C30_StatsOncePerGame ==
  (call # NoCall /\ call.fn = "update_user_stats") =>
    \A u \in StatsUsers :
      LET done == completedOf(u)
          user == call.users[u]
      IN  /\ user.total_games = Cardinality(done)
          /\ user.total_score = firstScores(done)
          /\ done = {} => user.best_score = 0 /\ user.best_time = Null
          /\ done # {} =>
                /\ \E g \in done : user.best_score = call.first[g][1].score
                /\ \A g \in done : user.best_score >= call.first[g][1].score
                /\ \E g \in done : user.best_time = call.first[g][1].time_elapsed
                /\ \A g \in done : user.best_time <= call.first[g][1].time_elapsed

\* C30, its case: a user has two completed games of different scores and
\* times, and the completion write of one of them was executed twice.
C30_Witness ==
  /\ call # NoCall /\ call.fn = "update_user_stats"
  /\ \E u \in StatsUsers, g \in StatsGameIds, h \in StatsGameIds :
       /\ g # h /\ completedOf(u) = {g, h}
       /\ call.updates[g] = 2
       /\ call.first[g][1].score < call.first[h][1].score
       /\ call.first[g][1].time_elapsed < call.first[h][1].time_elapsed
       /\ call.users[u].total_games = 2
       /\ call.users[u].total_score = 400
====
